---- MODULE Spec2Model ----
(***************************************************************************)
(* Model of the composite cone dispatcher                                  *)
(* (src/solver/core/cones/compositecone.rs) and of the native vector and   *)
(* CSC matrix kernels (src/algebra/native/mod.rs) of Clarabel.rs.          *)
(*                                                                         *)
(* Scalars of the float type T are modelled as integers.  Step lengths are *)
(* counted in hundredths, so that the ceiling 0.99 is the integer 99.      *)
(***************************************************************************)
EXTENDS Integers, Sequences, FiniteSets, TLC

(***************************************************************************)
(* Bounds of the model                                                     *)
(***************************************************************************)
\* longest descriptor list handed to CompositeCone::new
MaxCones == 2
\* dimensions tried for the cone kinds that take one
Dims == {1, 2}
\* the caller's alphamax, and the step lengths a member cone may return
\* (hundredths): values below and above the 0.99 ceiling
AlphaMaxes == {90, 100}
Alphas == {80, 100}

VARIABLES
    \* ---- CompositeCone (compositecone.rs:138-158)
    status,          \* "none": not yet built, "ok": built, "panic": new() panicked
    types,           \* copy of the descriptor list
    cones,           \* the member cones, in construction order
    type_counts,     \* variant name -> number of members of that kind
    numel,
    degree,
    rng_cones,
    rng_blocks,
    _is_symmetric,
    \* ---- the last call of CompositeCone::type_count, until the next call
    tc_str,
    tc_ret,
    \* ---- the last call of CompositeCone::step_length, until the next call
    pc,              \* "idle", "sym", "nonsym", "done"
    i,               \* position of the running loop in cones (1-based)
    alphamax,        \* the caller's argument
    alpha,           \* the local `α`
    calls,           \* the member step_length calls made so far, in order
    ret,             \* the returned pair
    \* ---- the last call of one of the other Cone methods of the composite
    method,          \* the method, "" when none
    bufs0,           \* the caller's buffers before the call, in argument order
    bufs,            \* the caller's buffers
    mcalls,          \* the member calls made, in order, with the slices passed
    opchanged,       \* the flag returned by rectify_equilibration
    opval,           \* the value returned by compute_barrier
    \* ---- one call of a VectorMath method on a buffer (native/mod.rs:16-144)
    vop,             \* the method called, "" before the call
    vself0,          \* the buffer `self` before the call
    vself,           \* the buffer `self`
    vx,              \* the second buffer of the call
    vy,              \* the third buffer of the call (waxpby)
    va,
    vb,
    vres,            \* the value returned
    vpanic,          \* the call panicked
    \* ---- one call of CscMatrix::gemv (native/mod.rs:250-344)
    gA,              \* the matrix: m, n, colptr, rowval, nzval
    gtrans,          \* "N" or "T"
    gx,
    gy0,             \* y before the call
    gy,              \* y
    ga,
    gb,
    gout             \* "" before the call, "ok", or the panic that ended it

composite == <<status, types, cones, type_counts, numel, degree,
               rng_cones, rng_blocks, _is_symmetric>>
query == <<tc_str, tc_ret>>
steplen == <<pc, i, alphamax, alpha, calls, ret>>
lastop == <<method, bufs0, bufs, mcalls, opchanged, opval>>
vecvars == <<vop, vself0, vself, vx, vy, va, vb, vres, vpanic>>
gemvvars == <<gA, gtrans, gx, gy0, gy, ga, gb, gout>>
kernels == <<vecvars, gemvvars>>
vars == <<composite, query, steplen, lastop, kernels>>

(***************************************************************************)
(* SupportedCone<T>                                                        *)
(***************************************************************************)
Kinds == {"ZeroConeT", "NonnegativeConeT", "SecondOrderConeT",
          "ExponentialConeT", "PlaceHolderT"}

\* the values of SupportedCone tried; ExponentialConeT() carries no dimension
SupportedCone ==
    [kind : {"ZeroConeT", "NonnegativeConeT", "SecondOrderConeT", "PlaceHolderT"},
     dim : Dims]
    \cup {[kind |-> "ExponentialConeT", dim |-> 0]}

variant_name(t) ==
    CASE t.kind = "ZeroConeT" -> "ZeroConeT"
      [] t.kind = "NonnegativeConeT" -> "NonnegativeConeT"
      [] t.kind = "SecondOrderConeT" -> "SecondOrderConeT"
      [] t.kind = "ExponentialConeT" -> "ExponentialConeT"
      [] t.kind = "PlaceHolderT" -> "PlaceHolderConeT"

nvars(t) ==
    CASE t.kind = "ZeroConeT" -> t.dim
      [] t.kind = "NonnegativeConeT" -> t.dim
      [] t.kind = "SecondOrderConeT" -> t.dim
      [] t.kind = "ExponentialConeT" -> 3
      [] t.kind = "PlaceHolderT" -> t.dim

(***************************************************************************)
(* The member cones.  Their implementations (ZeroCone, NonnegativeCone,    *)
(* SecondOrderCone, ExponentialCone) lie outside the two source files; a   *)
(* member is the record of what the composite asks of it.                  *)
(***************************************************************************)
\* Cone::is_symmetric of a member: false for Exponential and Placeholder
ConeIsSymmetric(t) == t.kind \notin {"ExponentialConeT", "PlaceHolderT"}

\* Cone::Hs_is_diagonal of a member: the zero cone and the orthant keep a
\* diagonal block, the second-order and exponential cones a dense one
ConeHsIsDiagonal(t) == t.kind \in {"ZeroConeT", "NonnegativeConeT"}

\* Cone::degree of a member
ConeDegree(t) ==
    CASE t.kind = "ZeroConeT" -> 0
      [] t.kind = "NonnegativeConeT" -> t.dim
      [] t.kind = "SecondOrderConeT" -> 1
      [] OTHER -> 3

\* make_cone: the boxed member built from a descriptor; `scaling` stands for
\* the internal scaling state of the member: "new" as built, "written" once a
\* method taking the member as &mut has run on it
make_cone(t) ==
    [kind |-> t.kind,
     numel |-> nvars(t),
     degree |-> ConeDegree(t),
     is_symmetric |-> ConeIsSymmetric(t),
     Hs_is_diagonal |-> ConeHsIsDiagonal(t),
     scaling |-> "new"]

\* make_cone reaches unimplemented!() for a PlaceHolderT
make_cone_panics(t) == t.kind = "PlaceHolderT"

(***************************************************************************)
(* CompositeCone::new and its helpers                                      *)
(***************************************************************************)
\* *type_counts.entry(name).or_insert(0) += 1
TallyEntryNoInsert(m, s) ==
    IF s \in DOMAIN m THEN [m EXCEPT ![s] = @ + 1] ELSE m @@ (s :> 0)

TallyEntry(m, s) ==
    IF s \in DOMAIN m THEN [m EXCEPT ![s] = @ + 1] ELSE m @@ (s :> 1)

RECURSIVE TallyTypes(_, _, _)
TallyTypes(ts, k, m) ==
    IF k > Len(ts) THEN m
    ELSE TallyTypes(ts, k + 1, TallyEntry(m, variant_name(ts[k])))

\* the matches! test of the construction loop
MatchesPlaceHolderOnly(t) == t.kind \in {"PlaceHolderT"}

MatchesNonsymmetric(t) == t.kind \in {"ExponentialConeT", "PlaceHolderT"}

RECURSIVE FoldSymmetric(_, _, _)
FoldSymmetric(ts, k, flag) ==
    IF k > Len(ts) THEN flag
    ELSE FoldSymmetric(ts, k + 1, flag /\ ~MatchesNonsymmetric(ts[k]))

\* cones.iter().map(|c| c.numel()).sum()
RECURSIVE SumNumel(_, _)
SumNumel(cs, k) == IF k > Len(cs) THEN 0 ELSE cs[k].numel + SumNumel(cs, k + 1)

\* cones.iter().map(|c| c.degree()).sum()
RECURSIVE SumDegree(_, _)
SumDegree(cs, k) == IF k > Len(cs) THEN 0 ELSE cs[k].degree + SumDegree(cs, k + 1)

Range(lo, hi) == [start |-> lo, end |-> hi]

\* one turn of the loop of _make_rng_cones: the stop of the range from start
RngConesStopOffByOne(start, cone) == start + cone.numel + 1

RngConesStop(start, cone) == start + cone.numel

RECURSIVE RngConesLoop(_, _, _, _)
RngConesLoop(cs, k, start, rngs) ==
    IF k > Len(cs) THEN rngs
    ELSE LET stop == RngConesStop(start, cs[k])
         IN RngConesLoop(cs, k + 1, stop, Append(rngs, Range(start, stop)))

_make_rng_cones(cs) == IF cs # <<>> THEN RngConesLoop(cs, 1, 0, <<>>) ELSE <<>>

\* one turn of the loop of _make_rng_blocks
RngBlocksStopAlwaysDiagonal(start, cone) == start + cone.numel

RngBlocksStop(start, cone) ==
    LET n == cone.numel
    IN start + (IF cone.Hs_is_diagonal THEN n ELSE (n * (n + 1)) \div 2)

RECURSIVE RngBlocksLoop(_, _, _, _)
RngBlocksLoop(cs, k, start, rngs) ==
    IF k > Len(cs) THEN rngs
    ELSE LET stop == RngBlocksStop(start, cs[k])
         IN RngBlocksLoop(cs, k + 1, stop, Append(rngs, Range(start, stop)))

_make_rng_blocks(cs) == IF cs # <<>> THEN RngBlocksLoop(cs, 1, 0, <<>>) ELSE <<>>

\* the descriptor lists tried
SeqsUpTo(S, n) == UNION {[1..k -> S] : k \in 0..n}

New(L) ==
    /\ status = "none"
    /\ IF \E k \in 1..Len(L) : make_cone_panics(L[k])
       THEN /\ status' = "panic"
            /\ UNCHANGED <<types, cones, type_counts, numel, degree,
                           rng_cones, rng_blocks, _is_symmetric>>
       ELSE LET cs == [k \in 1..Len(L) |-> make_cone(L[k])]
            IN /\ status' = "ok"
               /\ types' = L
               /\ cones' = cs
               /\ type_counts' = TallyTypes(L, 1, <<>>)
               /\ _is_symmetric' = FoldSymmetric(L, 1, TRUE)
               /\ numel' = SumNumel(cs, 1)
               /\ degree' = SumDegree(cs, 1)
               /\ rng_cones' = _make_rng_cones(cs)
               /\ rng_blocks' = _make_rng_blocks(cs)
    /\ UNCHANGED <<query, steplen, lastop, kernels>>

\* Cone::is_symmetric of the composite
is_symmetric == _is_symmetric

(***************************************************************************)
(* CompositeCone::type_count                                               *)
(***************************************************************************)
\* the strings asked for: every variant name and one that is no variant
ConeStrs == {"ZeroConeT", "NonnegativeConeT", "SecondOrderConeT",
             "ExponentialConeT", "PlaceHolderConeT", "PSDTriangleConeT"}

type_count(cone_str) ==
    IF cone_str \in DOMAIN type_counts THEN type_counts[cone_str] ELSE 0

\* between calls nothing of a finished call is left
NoQuery == tc_str = "" /\ tc_ret = 0
NoStepLength ==
    pc = "idle" /\ i = 0 /\ alphamax = 0 /\ alpha = 0 /\ calls = <<>> /\ ret = <<>>
NoOp ==
    /\ method = "" /\ bufs0 = <<>> /\ bufs = <<>> /\ mcalls = <<>>
    /\ opchanged = FALSE /\ opval = 0

\* a new call leaves nothing of the call before it
ForgetQuery == tc_str' = "" /\ tc_ret' = 0
ForgetStepLength ==
    /\ pc' = "idle" /\ i' = 0 /\ alphamax' = 0 /\ alpha' = 0
    /\ calls' = <<>> /\ ret' = <<>>
ForgetOp ==
    /\ method' = "" /\ bufs0' = <<>> /\ bufs' = <<>> /\ mcalls' = <<>>
    /\ opchanged' = FALSE /\ opval' = 0

\* the caller holds no result of an earlier call
Quiet == NoQuery /\ NoStepLength /\ NoOp

\* the caller is done with the result of the last call
Forget ==
    /\ status = "ok"
    /\ pc \in {"idle", "done"}
    /\ ~Quiet
    /\ ForgetQuery
    /\ ForgetStepLength
    /\ ForgetOp
    /\ UNCHANGED <<composite, kernels>>

TypeCount(cone_str) ==
    /\ status = "ok"
    /\ Quiet
    /\ tc_str' = cone_str
    /\ tc_ret' = type_count(cone_str)
    /\ UNCHANGED <<composite, steplen, lastop, kernels>>

(***************************************************************************)
(* CompositeCone::step_length                                              *)
(***************************************************************************)
ceil == 99

Min(p, q) == IF p <= q THEN p ELSE q

\* α = T::min(α, T::min(nextαz, nextαs))
TightenDualOnly(al, nextaz, nextas) == Min(al, nextaz)

Tighten(al, nextaz, nextas) == Min(al, Min(nextaz, nextas))

\* if !self.is_symmetric() { α = T::min(ceil, α) }
BackOffNever(al, sym) == al

BackOff(al, sym) == IF ~sym THEN Min(ceil, al) ELSE al

\* the slice buf[rng] of a caller's buffer
SliceFromStart(buf, rng) == SubSeq(buf, 1, rng.end - rng.start)

Slice(buf, rng) == SubSeq(buf, rng.start + 1, rng.end)

\* the slices at rng of all the buffers of a call, in argument order
Slices(bs, rng) == [b \in 1..Len(bs) |-> Slice(bs[b], rng)]

\* the caller's buffers: the entries of the n-th buffer are n*100 + index,
\* so that every entry of every buffer is told apart
IterBuf(n, len) == [j \in 1..len |-> n * 100 + (j - 1)]
IterBufs(count, len) == [n \in 1..count |-> IterBuf(n, len)]

\* step_length(dz, ds, z, s, settings, αmax)
StepLengthCall(amax) ==
    /\ status = "ok"
    /\ Quiet
    /\ pc' = "sym"
    /\ i' = 1
    /\ alphamax' = amax
    /\ alpha' = amax
    /\ calls' = <<>>
    /\ ret' = <<>>
    /\ UNCHANGED query
    /\ method' = "step_length"
    /\ bufs0' = IterBufs(4, numel)
    /\ bufs' = IterBufs(4, numel)
    /\ mcalls' = <<>> /\ opchanged' = FALSE /\ opval' = 0
    /\ UNCHANGED <<composite, kernels>>

\* one member's step_length, called with the running bound; what it returns
\* is the member's business
MemberStepLength(nextaz, nextas) ==
    /\ calls' = Append(calls, [cone |-> i, alphamax |-> alpha,
                               az |-> nextaz, as |-> nextas,
                               args |-> Slices(bufs, rng_cones[i])])
    /\ alpha' = Tighten(alpha, nextaz, nextas)

\* one turn of the first loop: symmetric cones first
SymIter ==
    /\ pc = "sym"
    /\ i <= Len(cones)
    /\ IF ~cones[i].is_symmetric
       THEN UNCHANGED <<alpha, calls>>
       ELSE \E nextaz \in Alphas, nextas \in Alphas : MemberStepLength(nextaz, nextas)
    /\ i' = i + 1
    /\ UNCHANGED <<pc, alphamax, ret, composite, query, lastop, kernels>>

\* the first loop is over: back off if there is a nonsymmetric cone
Clamp ==
    /\ pc = "sym"
    /\ i > Len(cones)
    /\ alpha' = BackOff(alpha, is_symmetric)
    /\ pc' = "nonsym"
    /\ i' = 1
    /\ UNCHANGED <<alphamax, calls, ret, composite, query, lastop, kernels>>

\* one turn of the second loop: asymmetric cones last
NonsymIter ==
    /\ pc = "nonsym"
    /\ i <= Len(cones)
    /\ IF cones[i].is_symmetric
       THEN UNCHANGED <<alpha, calls>>
       ELSE \E nextaz \in Alphas, nextas \in Alphas : MemberStepLength(nextaz, nextas)
    /\ i' = i + 1
    /\ UNCHANGED <<pc, alphamax, ret, composite, query, lastop, kernels>>

\* (α, α)
Return ==
    /\ pc = "nonsym"
    /\ i > Len(cones)
    /\ ret' = <<alpha, alpha>>
    /\ pc' = "done"
    /\ UNCHANGED <<i, alphamax, alpha, calls, composite, query, lastop, kernels>>

(***************************************************************************)
(* The other Cone methods of CompositeCone: each walks the members zipped  *)
(* with their ranges and hands every member its slices.  What a member     *)
(* does with them is the member's business: here member k writes -k over   *)
(* every slice it may write, so that the buffers show who wrote where.     *)
(***************************************************************************)
\* entries the caller's buffers may have beyond the composite's own
Pads == {0, 1}
\* the scalars (μ, σμ, α) passed along, and the barrier values of the members
Scalars == {1, 2}
BarrierVals == {0, 1}

Mark(k) == -k

MemberWrite(slice, k) == [j \in 1..Len(slice) |-> Mark(k)]

\* a write through the slice buf[rng] lands in buf
WriteBack(buf, rng, slice) ==
    [j \in 1..Len(buf) |->
        IF rng.start < j /\ j <= rng.end THEN slice[j - rng.start] ELSE buf[j]]

\* for (cone, rng) in self.iter().zip(rngs): the member call on the slices;
\* the buffers at the positions in mut are passed as &mut
RECURSIVE ForEachCone(_, _, _, _, _, _)
ForEachCone(rngs, mut, scalar, k, bs, log) ==
    IF k > Min(Len(cones), Len(rngs)) THEN [bufs |-> bs, log |-> log]
    ELSE ForEachCone(rngs, mut, scalar, k + 1,
            [b \in 1..Len(bs) |->
                IF b \in mut
                THEN WriteBack(bs[b], rngs[k], MemberWrite(Slice(bs[b], rngs[k]), k))
                ELSE bs[b]],
            Append(log, [cone |-> k, args |-> Slices(bs, rngs[k]), scalar |-> scalar]))

\* the length of the buffer rngs partitions
Extent(rngs) == IF rngs = <<>> THEN 0 ELSE rngs[Len(rngs)].end

\* a call of method `name` on `count` buffers of length len, sliced by rngs
Dispatch(name, count, mut, rngs, scalar, len) ==
    LET b0 == IterBufs(count, len)
        r == ForEachCone(rngs, mut, scalar, 1, b0, <<>>)
    IN /\ status = "ok"
       /\ Quiet
       /\ method' = name
       /\ bufs0' = b0
       /\ bufs' = r.bufs
       /\ mcalls' = r.log
       /\ UNCHANGED <<query, steplen>>
       /\ UNCHANGED <<status, types, type_counts, numel, degree, rng_cones,
                      rng_blocks, _is_symmetric, kernels>>

\* the member after a method that may write its internal scaling state
WriteScaling(cone) == [cone EXCEPT !.scaling = "written"]

\* for cone in cones.iter_mut(): the members at the positions in writers
\* write their internal state, in place
IterMutDropsLast(cs, writers) ==
    [k \in 1..(Len(cs) - 1) |-> IF k \in writers THEN WriteScaling(cs[k]) ELSE cs[k]]

IterMut(cs, writers) ==
    [k \in 1..Len(cs) |-> IF k \in writers THEN WriteScaling(cs[k]) ELSE cs[k]]

\* any_changed |= cone.rectify_equilibration(δi, ei)
OrChangedOverwrites(any, changed) == changed

OrChanged(any, changed) == any \/ changed

\* δ.fill(T::one())
FillOnes(buf) == [j \in 1..Len(buf) |-> 1]

\* the loop of rectify_equilibration: member k answers changed[k], and
\* writes its slice of δ when it answers true
RECURSIVE RectifyLoop(_, _, _, _, _)
RectifyLoop(changed, k, bs, log, any) ==
    IF k > Min(Len(cones), Len(rng_cones)) THEN [bufs |-> bs, log |-> log, any |-> any]
    ELSE LET rng == rng_cones[k]
         IN RectifyLoop(changed, k + 1,
                <<IF changed[k]
                  THEN WriteBack(bs[1], rng, MemberWrite(Slice(bs[1], rng), k))
                  ELSE bs[1],
                  bs[2]>>,
                Append(log, [cone |-> k, args |-> Slices(bs, rng), scalar |-> 0,
                             changed |-> changed[k]]),
                OrChanged(any, changed[k]))

rectify_equilibration(b0, changed) ==
    RectifyLoop(changed, 1, <<FillOnes(b0[1]), b0[2]>>, <<>>, FALSE)

RectifyEquilibration ==
    \E pad \in Pads, changed \in [1..Len(cones) -> BOOLEAN] :
        LET b0 == IterBufs(2, numel + pad)
            r == rectify_equilibration(b0, changed)
        IN /\ status = "ok"
           /\ Quiet
           /\ method' = "rectify_equilibration"
           /\ bufs0' = b0
           /\ bufs' = r.bufs
           /\ mcalls' = r.log
           /\ opchanged' = r.any
           /\ opval' = 0
           /\ UNCHANGED <<composite, query, steplen, kernels>>

ShiftToCone ==
    \E pad \in Pads :
        /\ Dispatch("shift_to_cone", 1, {1}, rng_cones, 0, numel + pad)
        /\ opchanged' = FALSE /\ opval' = 0
        /\ UNCHANGED cones

UnitInitialization ==
    \E pad \in Pads :
        /\ Dispatch("unit_initialization", 2, {1, 2}, rng_cones, 0, numel + pad)
        /\ opchanged' = FALSE /\ opval' = 0
        /\ UNCHANGED cones

\* for cone in self.iter_mut() { cone.set_identity_scaling() }
SetIdentityScaling ==
    /\ Dispatch("set_identity_scaling", 0, {}, rng_cones, 0, 0)
    /\ opchanged' = FALSE /\ opval' = 0
    /\ cones' = IterMut(cones, 1..Len(cones))

UpdateScaling ==
    \E pad \in Pads, mu \in Scalars :
        /\ Dispatch("update_scaling", 2, {}, rng_cones, mu, numel + pad)
        /\ opchanged' = FALSE /\ opval' = 0
        /\ cones' = IterMut(cones, 1..Min(Len(cones), Len(rng_cones)))

GetHs ==
    \E pad \in Pads :
        /\ Dispatch("get_Hs", 1, {1}, rng_blocks, 0, Extent(rng_blocks) + pad)
        /\ opchanged' = FALSE /\ opval' = 0
        /\ UNCHANGED cones

MulHs ==
    \E pad \in Pads :
        /\ Dispatch("mul_Hs", 3, {1, 3}, rng_cones, 0, numel + pad)
        /\ opchanged' = FALSE /\ opval' = 0
        /\ UNCHANGED cones

AffineDs ==
    \E pad \in Pads :
        /\ Dispatch("affine_ds", 2, {1}, rng_cones, 0, numel + pad)
        /\ opchanged' = FALSE /\ opval' = 0
        /\ UNCHANGED cones

\* the nonsymmetric members change their internal state here
CombinedDsShift ==
    \E pad \in Pads, sigmamu \in Scalars :
        /\ Dispatch("combined_ds_shift", 3, {1}, rng_cones, sigmamu, numel + pad)
        /\ opchanged' = FALSE /\ opval' = 0
        /\ cones' = IterMut(cones, {k \in 1..Min(Len(cones), Len(rng_cones)) :
                                         ~cones[k].is_symmetric})

DsFromDzOffset ==
    \E pad \in Pads :
        /\ Dispatch("ds_from_dz_offset", 3, {1, 3}, rng_cones, 0, numel + pad)
        /\ opchanged' = FALSE /\ opval' = 0
        /\ UNCHANGED cones

\* barrier += cone.compute_barrier(zi, si, dzi, dsi, α)
RECURSIVE SumBarrier(_, _, _)
SumBarrier(vals, k, barrier) ==
    IF k > Min(Len(cones), Len(rng_cones)) THEN barrier
    ELSE SumBarrier(vals, k + 1, barrier + vals[k])

ComputeBarrier ==
    \E pad \in Pads, al \in Scalars, vals \in [1..Len(cones) -> BarrierVals] :
        /\ Dispatch("compute_barrier", 4, {}, rng_cones, al, numel + pad)
        /\ opchanged' = FALSE
        /\ opval' = SumBarrier(vals, 1, 0)
        /\ UNCHANGED cones

(***************************************************************************)
(* VectorMath for [T] (native/mod.rs)                                      *)
(***************************************************************************)
\* longest buffer tried
MaxLen == 2
\* the entries of the buffers and the scalars a and b tried
Vals == {-1, 2}
ScalarsA == {0, 2}
ScalarsB == {0, 1, -1, 3}

Bufs == SeqsUpTo(Vals, MaxLen)

\* what a call returns: nothing, a finite value, a square root, or T::infinity()
NoResult == [kind |-> "none", v |-> 0]
Fin(v) == [kind |-> "val", v |-> v]
SqrtOf(v) == [kind |-> "sqrt", v |-> v]
PosInf == [kind |-> "inf", v |-> 0]

\* the outcome of a call: the buffer afterwards, the value returned, a panic
Returned(buf, res) == [self |-> buf, res |-> res, panic |-> FALSE]
Panicked(buf) == [self |-> buf, res |-> NoResult, panic |-> TRUE]

\* iter().zip(y) stops at the shorter of the two
ZipLen(p, q) == Min(Len(p), Len(q))

\* copy_from_slice panics when the lengths differ
copy_from(self, src) ==
    IF Len(self) # Len(src) THEN Panicked(self) ELSE Returned(src, NoResult)

hadamard(self, y) ==
    Returned([k \in 1..Len(self) |->
                 IF k <= ZipLen(self, y) THEN self[k] * y[k] ELSE self[k]],
             NoResult)

RECURSIVE FoldDot(_, _, _, _)
FoldDot(p, q, k, acc) ==
    IF k > ZipLen(p, q) THEN acc ELSE FoldDot(p, q, k + 1, acc + p[k] * q[k])

dot(self, y) == Returned(self, Fin(FoldDot(self, y, 1, 0)))

RECURSIVE FoldNormScaled(_, _, _, _)
FoldNormScaled(p, q, k, acc) ==
    IF k > ZipLen(p, q) THEN acc
    ELSE LET prod == p[k] * q[k] IN FoldNormScaled(p, q, k + 1, acc + prod * prod)

norm_scaled(self, v) ==
    IF Len(self) # Len(v) THEN Panicked(self)
    ELSE Returned(self, SqrtOf(FoldNormScaled(self, v, 1, 0)))

\* T::min and T::max on T::infinity() and finite values
FMinKeepsLarger(r, s) ==
    IF r.kind = "inf" \/ s.kind = "inf" THEN PosInf
    ELSE IF r.v >= s.v THEN r ELSE s

FMin(r, s) ==
    IF r.kind = "inf" THEN s
    ELSE IF s.kind = "inf" THEN r
    ELSE IF r.v <= s.v THEN r ELSE s

FMax(r, s) ==
    IF r.kind = "inf" \/ s.kind = "inf" THEN PosInf
    ELSE IF r.v >= s.v THEN r ELSE s

RECURSIVE FoldMin(_, _, _)
FoldMin(p, k, r) == IF k > Len(p) THEN r ELSE FoldMin(p, k + 1, FMin(r, Fin(p[k])))

RECURSIVE FoldMax(_, _, _)
FoldMax(p, k, r) == IF k > Len(p) THEN r ELSE FoldMax(p, k + 1, FMax(r, Fin(p[k])))

minimum(self) == Returned(self, FoldMin(self, 1, PosInf))

maximum(self) == Returned(self, FoldMax(self, 1, PosInf))

axpby(self, a, x, b) ==
    IF Len(self) # Len(x) THEN Panicked(self)
    ELSE Returned([k \in 1..Len(self) |->
                      IF b = 0 THEN a * x[k]
                      ELSE IF b = 1 THEN a * x[k] + self[k]
                      ELSE IF b = -1 THEN a * x[k] - self[k]
                      ELSE a * x[k] + b * self[k]],
                  NoResult)

waxpby(self, a, x, b, y) ==
    IF Len(self) # Len(x) THEN Panicked(self)
    ELSE IF Len(self) # Len(y) THEN Panicked(self)
    ELSE Returned([k \in 1..Len(self) |-> a * x[k] * b * y[k]], NoResult)

\* a call of `op` with these arguments, and its outcome
VecCall(op, x, y, a, b, outcome) ==
    /\ vop = ""
    /\ vop' = op
    /\ vx' = x
    /\ vy' = y
    /\ va' = a
    /\ vb' = b
    /\ vself' = outcome.self
    /\ vres' = outcome.res
    /\ vpanic' = outcome.panic
    /\ UNCHANGED <<vself0, composite, query, steplen, lastop, gemvvars>>

CopyFrom == \E src \in Bufs : VecCall("copy_from", src, <<>>, 0, 0, copy_from(vself, src))

Hadamard == \E y \in Bufs : VecCall("hadamard", y, <<>>, 0, 0, hadamard(vself, y))

Dot == \E y \in Bufs : VecCall("dot", y, <<>>, 0, 0, dot(vself, y))

NormScaled == \E v \in Bufs : VecCall("norm_scaled", v, <<>>, 0, 0, norm_scaled(vself, v))

Minimum == VecCall("minimum", <<>>, <<>>, 0, 0, minimum(vself))

Maximum == VecCall("maximum", <<>>, <<>>, 0, 0, maximum(vself))

Axpby ==
    \E a \in ScalarsA, x \in Bufs, b \in ScalarsB :
        VecCall("axpby", x, <<>>, a, b, axpby(vself, a, x, b))

Waxpby ==
    \E a \in ScalarsA, x \in Bufs, b \in ScalarsB, y \in Bufs :
        VecCall("waxpby", x, y, a, b, waxpby(vself, a, x, b, y))

\* no vector call made: an empty buffer
VecIdle ==
    /\ vop = "" /\ vself0 = <<>> /\ vself = <<>> /\ vx = <<>> /\ vy = <<>>
    /\ va = 0 /\ vb = 0 /\ vres = NoResult /\ vpanic = FALSE

(***************************************************************************)
(* MatrixMath for CscMatrix<T>: gemv (native/mod.rs)                       *)
(***************************************************************************)
\* the largest matrix tried: rows, columns, stored entries
MaxRows == 2
MaxCols == 2
MaxNnz == 2
\* the stored values, the entries of x and y, and the scalars a and b tried
NzVals == {1, 3}
XVals == {1, 2}
GemvScalars == {0, 1, -1, 2}

\* the well-formed m x n CSC matrices: colptr has n+1 entries, starts at 0,
\* never decreases and ends at the number of stored entries; every row index
\* is below m; rows are in any order within a column, and a column may be empty
CscMatrices ==
    UNION {
        {[m |-> m, n |-> n, colptr |-> cp, rowval |-> rv, nzval |-> nz] :
            cp \in {c \in [1..(n + 1) -> 0..nnz] :
                       /\ c[1] = 0
                       /\ c[n + 1] = nnz
                       /\ \A j \in 1..n : c[j] <= c[j + 1]},
            rv \in [1..nnz -> 0..(m - 1)],
            nz \in [1..nnz -> NzVals]} :
        m \in 1..MaxRows, n \in 1..MaxCols, nnz \in 0..MaxNnz}

\* the outcome of a gemv: y afterwards and how the call ended
GemvOut(y, out) == [y |-> y, out |-> out]

\* y.negate() and y.scale(b)
negate(y) == [k \in 1..Len(y) |-> -y[k]]
scale(y, c) == [k \in 1..Len(y) |-> y[k] * c]

\* "first do the b*y part"
ByPart(y, b) ==
    IF b = 0 THEN [k \in 1..Len(y) |-> 0]
    ELSE IF b = 1 THEN y
    ELSE IF b = -1 THEN negate(y)
    ELSE scale(y, b)

\* the update of one entry of y in the three branches on a
Accumulate(a, yv, nzv, xv) ==
    IF a = 1 THEN yv + nzv * xv
    ELSE IF a = -1 THEN yv - nzv * xv
    ELSE yv + a * nzv * xv

\* the vector indices of the source count from 0, sequences from 1
At(p, k) == p[k + 1]

\* for j in 0..A.n { for i in A.colptr[j]..A.colptr[j+1] { y[A.rowval[i]] += .. x[j] } }
RECURSIVE LoopN(_, _, _, _, _, _)
LoopN(A, y, x, a, j, k) ==
    IF j >= A.n THEN GemvOut(y, "ok")
    ELSE IF k >= At(A.colptr, j + 1) THEN LoopN(A, y, x, a, j + 1, At(A.colptr, j + 1))
    ELSE LET r == At(A.rowval, k)
         IN IF r >= Len(y) \/ j >= Len(x) THEN GemvOut(y, "index")
            ELSE LoopN(A, [y EXCEPT ![r + 1] = Accumulate(a, @, At(A.nzval, k), At(x, j))],
                       x, a, j, k + 1)

\* the length of x that _csc_axpby_T asserts
AssertedLenT(A) == A.n

\* the length of x that _csc_axpby_N asserts
AssertedLenN(A) == A.n

_csc_axpby_N(A, y, x, a, b) ==
    LET y1 == ByPart(y, b)
    IN IF a = 0 THEN GemvOut(y1, "ok")
       ELSE IF Len(A.nzval) # A.colptr[Len(A.colptr)] THEN GemvOut(y1, "assert_nnz")
       ELSE IF Len(x) # AssertedLenN(A) THEN GemvOut(y1, "assert_x")
       ELSE LoopN(A, y1, x, a, 0, At(A.colptr, 0))

\* for j in 0..A.n { for k in A.colptr[j]..A.colptr[j+1] { y[j] += .. x[A.rowval[k]] } }
RECURSIVE LoopT(_, _, _, _, _, _)
LoopT(A, y, x, a, j, k) ==
    IF j >= A.n THEN GemvOut(y, "ok")
    ELSE IF k >= At(A.colptr, j + 1) THEN LoopT(A, y, x, a, j + 1, At(A.colptr, j + 1))
    ELSE LET r == At(A.rowval, k)
         IN IF j >= Len(y) \/ r >= Len(x) THEN GemvOut(y, "index")
            ELSE LoopT(A, [y EXCEPT ![j + 1] = Accumulate(a, @, At(A.nzval, k), At(x, r))],
                       x, a, j, k + 1)

_csc_axpby_T(A, y, x, a, b) ==
    LET y1 == ByPart(y, b)
    IN IF a = 0 THEN GemvOut(y1, "ok")
       ELSE IF Len(A.nzval) # A.colptr[Len(A.colptr)] THEN GemvOut(y1, "assert_nnz")
       ELSE IF Len(x) # AssertedLenT(A) THEN GemvOut(y1, "assert_x")
       ELSE LoopT(A, y1, x, a, 0, At(A.colptr, 0))

gemv(A, y, trans, x, a, b) ==
    IF trans = "N" THEN _csc_axpby_N(A, y, x, a, b) ELSE _csc_axpby_T(A, y, x, a, b)

Gemv ==
    \E trans \in {"N", "T"}, a \in GemvScalars, b \in GemvScalars :
        LET outcome == gemv(gA, gy, trans, gx, a, b)
        IN /\ gout = ""
           /\ gtrans' = trans
           /\ ga' = a
           /\ gb' = b
           /\ gy' = outcome.y
           /\ gout' = outcome.out
           /\ UNCHANGED <<gA, gx, gy0, composite, query, steplen, lastop,
                        vecvars>>

\* no gemv made: an empty matrix and empty vectors
GemvIdle ==
    /\ gA = [m |-> 0, n |-> 0, colptr |-> <<0>>, rowval |-> <<>>, nzval |-> <<>>]
    /\ gtrans = "N" /\ gx = <<>> /\ gy0 = <<>> /\ gy = <<>>
    /\ ga = 0 /\ gb = 0 /\ gout = ""

(***************************************************************************)
(* The composite cone: built once, then queried                            *)
(***************************************************************************)
ConeInit ==
    /\ status = "none"
    /\ types = <<>>
    /\ cones = <<>>
    /\ type_counts = <<>>
    /\ numel = 0
    /\ degree = 0
    /\ rng_cones = <<>>
    /\ rng_blocks = <<>>
    /\ _is_symmetric = TRUE
    /\ NoQuery
    /\ NoStepLength
    /\ NoOp

Init == ConeInit /\ VecIdle /\ GemvIdle

Construct == \E L \in SeqsUpTo(SupportedCone, MaxCones) : New(L)

AskTypeCount == \E s \in ConeStrs : TypeCount(s)

StepLengthBegin == \E amax \in AlphaMaxes : StepLengthCall(amax)

Next ==
    \/ Construct
    \/ AskTypeCount
    \/ StepLengthBegin
    \/ SymIter
    \/ Clamp
    \/ NonsymIter
    \/ Return
    \/ RectifyEquilibration
    \/ ShiftToCone
    \/ UnitInitialization
    \/ SetIdentityScaling
    \/ UpdateScaling
    \/ GetHs
    \/ MulHs
    \/ AffineDs
    \/ CombinedDsShift
    \/ DsFromDzOffset
    \/ ComputeBarrier
    \/ Forget

Spec == Init /\ [][Next]_vars

(***************************************************************************)
(* The vector kernel: one method called on one buffer                      *)
(***************************************************************************)
InitVec ==
    /\ ConeInit
    /\ GemvIdle
    /\ vself0 \in Bufs
    /\ vself = vself0
    /\ vop = "" /\ vx = <<>> /\ vy = <<>>
    /\ va = 0 /\ vb = 0 /\ vres = NoResult /\ vpanic = FALSE

NextVec ==
    \/ CopyFrom
    \/ Hadamard
    \/ Dot
    \/ NormScaled
    \/ Minimum
    \/ Maximum
    \/ Axpby
    \/ Waxpby

SpecVec == InitVec /\ [][NextVec]_vars

(***************************************************************************)
(* The matrix kernel: one gemv on one matrix                               *)
(***************************************************************************)
XBufs == SeqsUpTo(XVals, IF MaxRows >= MaxCols THEN MaxRows ELSE MaxCols)

InitGemv ==
    /\ ConeInit
    /\ VecIdle
    /\ gA \in CscMatrices
    /\ gx \in XBufs
    /\ gy0 \in XBufs
    /\ gy = gy0
    /\ gtrans = "N" /\ ga = 0 /\ gb = 0 /\ gout = ""

NextGemv == Gemv

SpecGemv == InitGemv /\ [][NextGemv]_vars

(***************************************************************************)
(* Properties of CompositeCone                                             *)
(***************************************************************************)
Members == 1..Len(cones)

MinOfSet(S) == CHOOSE m \in S : \A e \in S : m <= e

\* C1: step_length returns the same value for both step lengths, that value
\* is at most the caller's alphamax whatever the members returned, and at
\* most 0.99 when some member is not symmetric.
StepLengthBounded ==
    pc = "done" =>
        /\ ret[1] = ret[2]
        /\ ret[1] <= alphamax
        /\ (\E k \in Members : ~cones[k].is_symmetric) => ret[1] <= ceil

\* C1 witness: a composite with a symmetric and a nonsymmetric member, a
\* caller's bound above the ceiling, members that answered above it as well,
\* and a result that is exactly the ceiling.
StepLengthBoundedWitness ==
    /\ pc = "done"
    /\ \E k \in Members : ~cones[k].is_symmetric
    /\ \E k \in Members : cones[k].is_symmetric
    /\ alphamax > ceil
    /\ Len(calls) = 2
    /\ \A j \in 1..Len(calls) : calls[j].az > ceil /\ calls[j].as > ceil
    /\ ret = <<ceil, ceil>>

\* the bound the j-th member call must have been given
RunningBound(j) ==
    MinOfSet({alphamax}
             \cup {calls[h].az : h \in 1..(j - 1)}
             \cup {calls[h].as : h \in 1..(j - 1)}
             \cup (IF cones[calls[j].cone].is_symmetric THEN {} ELSE {ceil}))

\* C2: within one step_length, the members are called symmetric ones first,
\* each group in construction order, no member twice; each is given the
\* running bound (the minimum of the caller's alphamax and every step length
\* returned before, and of 0.99 for a nonsymmetric member); and when the call
\* returns every member has been called exactly once.
StepLengthOrder ==
    /\ \A j \in 1..Len(calls) :
        /\ calls[j].cone \in Members
        /\ calls[j].alphamax = RunningBound(j)
    /\ \A j \in 1..Len(calls) : \A h \in (j + 1)..Len(calls) :
        LET sj == cones[calls[j].cone].is_symmetric
            sh == cones[calls[h].cone].is_symmetric
        IN /\ ~(~sj /\ sh)
           /\ (sj = sh) => calls[j].cone < calls[h].cone
    /\ pc = "done" =>
        \A k \in Members : Cardinality({j \in 1..Len(calls) : calls[j].cone = k}) = 1

\* C2 witness: the nonsymmetric member was built first and called last, with
\* the smaller of the two step lengths the symmetric member had returned.
StepLengthOrderWitness ==
    /\ pc = "done"
    /\ Len(calls) = 2
    /\ calls[1].cone = 2 /\ calls[2].cone = 1
    /\ calls[1].as < calls[1].az
    /\ calls[1].as < alphamax
    /\ calls[2].alphamax = calls[1].as

\* the sum of the descriptors' sizes
RECURSIVE SumNvars(_)
SumNvars(ts) == IF ts = <<>> THEN 0 ELSE nvars(Head(ts)) + SumNvars(Tail(ts))

\* C3: rng_cones has one range per member in construction order, starting at
\* 0, each starting where the previous one ends, range k as long as member k,
\* the last ending at numel(), which is the sum of the member sizes: every
\* index below numel() lies in exactly one range.  Empty list: no range, 0.
RngConesPartition ==
    status = "ok" =>
        /\ Len(rng_cones) = Len(types)
        /\ Len(cones) = Len(types)
        /\ numel = SumNvars(types)
        /\ \A k \in 1..Len(rng_cones) :
            /\ rng_cones[k].start = (IF k = 1 THEN 0 ELSE rng_cones[k - 1].end)
            /\ rng_cones[k].end - rng_cones[k].start = cones[k].numel
            /\ cones[k].numel = nvars(types[k])
        /\ rng_cones # <<>> => rng_cones[Len(rng_cones)].end = numel
        /\ \A e \in 0..(numel - 1) :
            Cardinality({k \in 1..Len(rng_cones) :
                            rng_cones[k].start <= e /\ e < rng_cones[k].end}) = 1
        /\ types = <<>> => rng_cones = <<>> /\ numel = 0

\* C3 witness: [Zero(2), Exponential] gives the ranges 0..2 and 2..5.
RngConesPartitionWitness ==
    /\ status = "ok"
    /\ numel = 5
    /\ rng_cones = <<Range(0, 2), Range(2, 5)>>

\* C4: rng_blocks has one range per member in construction order, contiguous
\* from 0; range k has length n = member k's numel() when the member's
\* Hessian block is diagonal and n(n+1)/2 when it is not.
RngBlocksSized ==
    status = "ok" =>
        /\ Len(rng_blocks) = Len(cones)
        /\ \A k \in 1..Len(rng_blocks) :
            LET n == cones[k].numel
                len == rng_blocks[k].end - rng_blocks[k].start
            IN /\ rng_blocks[k].start = (IF k = 1 THEN 0 ELSE rng_blocks[k - 1].end)
               /\ cones[k].Hs_is_diagonal => len = n
               /\ ~cones[k].Hs_is_diagonal => 2 * len = n * (n + 1)

\* C4 witness: a diagonal member of size 2 followed by a dense one of size 2,
\* whose block takes 3 entries.
RngBlocksSizedWitness ==
    /\ status = "ok"
    /\ Len(cones) = 2
    /\ cones[1].Hs_is_diagonal /\ cones[1].numel = 2
    /\ ~cones[2].Hs_is_diagonal /\ cones[2].numel = 2
    /\ rng_blocks = <<Range(0, 2), Range(2, 5)>>

\* the number of descriptors of a kind, whatever their dimension
KindCount(K) == Cardinality({k \in 1..Len(types) : types[k].kind = K})

KindName(K) == variant_name([kind |-> K, dim |-> 1])

RECURSIVE SumTypeCount(_)
SumTypeCount(Ks) ==
    IF Ks = {} THEN 0
    ELSE LET K == CHOOSE K \in Ks : TRUE
         IN type_count(KindName(K)) + SumTypeCount(Ks \ {K})

\* C5: type_count of a kind is the number of descriptors of that kind in the
\* list, whatever their dimensions, 0 for a kind (or a name) that does not
\* occur; the counts of all kinds add up to the number of members.
TypeCountCounts ==
    status = "ok" =>
        /\ \A K \in Kinds : type_count(KindName(K)) = KindCount(K)
        /\ SumTypeCount(Kinds) = Len(cones)
        /\ tc_str # "" =>
            tc_ret = Cardinality({k \in 1..Len(types) : variant_name(types[k]) = tc_str})
        /\ (tc_str # "" /\ \A k \in 1..Len(types) : variant_name(types[k]) # tc_str)
            => tc_ret = 0

\* C5 witness: two descriptors of one kind and different dimensions count 2.
TypeCountCountsWitness ==
    /\ status = "ok"
    /\ Len(types) = 2
    /\ types[1].kind = "NonnegativeConeT" /\ types[2].kind = "NonnegativeConeT"
    /\ types[1].dim # types[2].dim
    /\ tc_str = "NonnegativeConeT"
    /\ tc_ret = 2

\* C6: is_symmetric() of a built composite is true exactly when no descriptor
\* is Exponential or Placeholder (so for the empty list), and is the
\* conjunction of the members' is_symmetric().
SymmetricFlag ==
    status = "ok" =>
        /\ is_symmetric <=>
            \A k \in 1..Len(types) : types[k].kind \notin {"ExponentialConeT", "PlaceHolderT"}
        /\ is_symmetric <=> \A k \in Members : cones[k].is_symmetric
        /\ types = <<>> => is_symmetric

\* C6 witness: one Exponential among symmetric members clears the flag.
SymmetricFlagWitness ==
    /\ status = "ok"
    /\ Len(types) = 2
    /\ types[1].kind = "SecondOrderConeT"
    /\ types[2].kind = "ExponentialConeT"
    /\ ~is_symmetric

(***************************************************************************)
(* Properties of the matrix kernel                                         *)
(***************************************************************************)
\* the operand dimension the orientation implies for x, and the one for y
OperandDim(A, trans) == IF trans = "N" THEN A.n ELSE A.m
ResultDim(A, trans) == IF trans = "N" THEN A.m ELSE A.n

\* C7: gemv fails exactly when the length of x differs from the operand
\* dimension the orientation implies (ncols for N, nrows for T), and a call
\* whose x has that length does not fail on this precondition.
GemvChecksOperandLength ==
    gout # "" =>
        /\ Len(gx) # OperandDim(gA, gtrans) => gout # "ok"
        /\ Len(gx) = OperandDim(gA, gtrans) => gout # "assert_x"

\* entry (r, c) of the matrix, rows and columns counted from 0
RECURSIVE SumEntries(_, _, _, _)
SumEntries(A, r, lo, hi) ==
    IF lo >= hi THEN 0
    ELSE (IF At(A.rowval, lo) = r THEN At(A.nzval, lo) ELSE 0) + SumEntries(A, r, lo + 1, hi)

Entry(A, r, c) == SumEntries(A, r, At(A.colptr, c), At(A.colptr, c + 1))

OpEntry(A, trans, r, c) == IF trans = "N" THEN Entry(A, r, c) ELSE Entry(A, c, r)

RECURSIVE RowTimes(_, _, _, _, _)
RowTimes(A, trans, r, x, c) ==
    IF c >= Len(x) THEN 0
    ELSE OpEntry(A, trans, r, c) * At(x, c) + RowTimes(A, trans, r, x, c + 1)

\* a*op(A)*x + b*y
AxPlusBy(A, trans, x, a, b, y) ==
    [k \in 1..Len(y) |-> a * RowTimes(A, trans, k - 1, x, 0) + b * y[k]]

\* C9: for a well-formed matrix, x and y of the proper lengths and every a
\* and b, gemv leaves y = a*op(A)*x + b*(old y), op the identity for N and the
\* transpose for T; so b*(old y) when a is 0.
GemvComputes ==
    (/\ gout # ""
     /\ Len(gx) = OperandDim(gA, gtrans)
     /\ Len(gy0) = ResultDim(gA, gtrans))
    => /\ gout = "ok"
       /\ gy = AxPlusBy(gA, gtrans, gx, ga, gb, gy0)

(***************************************************************************)
(* Properties of the vector kernel                                         *)
(***************************************************************************)
PairedOps == {"copy_from", "hadamard", "dot", "norm_scaled", "axpby", "waxpby"}

\* C8: copy_from, hadamard, dot, norm_scaled, axpby and waxpby fail, without
\* a result and with the target buffer as it was, whenever the buffers they
\* pair differ in length.
PairedLengthsChecked ==
    (/\ vop \in PairedOps
     /\ \/ Len(vself0) # Len(vx)
        \/ vop = "waxpby" /\ Len(vself0) # Len(vy))
    => /\ vpanic
       /\ vres = NoResult
       /\ vself = vself0

\* C10: minimum() returns the smallest element of the buffer, and positive
\* infinity for an empty one; maximum() returns positive infinity whatever
\* the buffer holds.
MinimumMaximumFolds ==
    /\ vop = "minimum" =>
        /\ ~vpanic
        /\ vself0 = <<>> => vres = PosInf
        /\ vself0 # <<>> =>
            /\ vres.kind = "val"
            /\ \E k \in 1..Len(vself0) : vself0[k] = vres.v
            /\ \A k \in 1..Len(vself0) : vres.v <= vself0[k]
    /\ vop = "maximum" => ~vpanic /\ vres = PosInf
    /\ vop \in {"minimum", "maximum"} => vself = vself0

\* C10 witness: maximum() of a buffer of two different finite values is
\* positive infinity.
MinimumMaximumFoldsWitness ==
    /\ vop = "maximum"
    /\ Len(vself0) = 2
    /\ vself0[1] < vself0[2]
    /\ vres = PosInf

\* the parts of the composite fixed by new(): the members in order (their
\* scaling state aside), the ranges, the totals, the tallies and the flag
Member(cone) == [cone EXCEPT !.scaling = "new"]

Structure ==
    <<status, [k \in 1..Len(cones) |-> Member(cones[k])], rng_cones, rng_blocks,
      numel, degree, type_counts, _is_symmetric>>

\* C11: once the composite is built, no operation on it (the Cone methods,
\* type_count, step_length) changes the number or order of its members, its
\* ranges, numel(), degree(), its kind counts or its symmetry flag; only
\* the scaling state of the members may change.
StructureFixed == [][status = "ok" => Structure' = Structure]_vars

\* combined_ds_shift has run on a composite with both sorts of member: the
\* nonsymmetric member has written its state, the symmetric one has not
StructureFixedWitness ==
    /\ status = "ok"
    /\ method = "combined_ds_shift"
    /\ Len(cones) = 2
    /\ cones[1].scaling = "written"
    /\ cones[2].scaling = "new"
    /\ rng_cones = <<Range(0, 3), Range(3, 5)>>

\* the member calls of the last method, in the order they were made
Invocations == IF method = "step_length" THEN calls ELSE mcalls

\* the last method has returned, and it is one that takes buffers
ReturnedWithBuffers ==
    /\ method \notin {"", "set_identity_scaling"}
    /\ method = "step_length" => pc = "done"

\* the ranges the last method slices with
RngsOf == IF method = "get_Hs" THEN rng_blocks ELSE rng_cones

\* the caller's buffer b as the loop over the members received it
Passed(b) ==
    IF method = "rectify_equilibration" /\ b = 1 THEN [j \in 1..Len(bufs0[1]) |-> 1]
    ELSE bufs0[b]

\* entry j of a sequence is index j - 1 of the slice
InRange(j, rng) == rng.start < j /\ j <= rng.end

\* every argument of every member call is the caller's buffer at exactly
\* the indices of that member's range
SlicesExact ==
    \A c \in 1..Len(Invocations) :
        LET inv == Invocations[c]
            rng == RngsOf[inv.cone]
        IN /\ Len(inv.args) = Len(bufs0)
           /\ \A b \in 1..Len(bufs0) :
                /\ Len(inv.args[b]) = rng.end - rng.start
                /\ \A j \in 1..Len(inv.args[b]) :
                        inv.args[b][j] = Passed(b)[rng.start + j]

\* an entry of a buffer that differs from what the caller passed lies in
\* the range of the member that wrote it
OnlyOwnWrites ==
    /\ Len(bufs) = Len(bufs0)
    /\ \A b \in 1..Len(bufs) :
        /\ Len(bufs[b]) = Len(bufs0[b])
        /\ \A j \in 1..Len(bufs[b]) :
            \/ bufs[b][j] = Passed(b)[j]
            \/ \E k \in Members : InRange(j, RngsOf[k]) /\ bufs[b][j] = Mark(k)

\* member 1, then member 2, ..., each once
ConstructionOrder ==
    /\ Len(Invocations) = Len(cones)
    /\ \A c \in 1..Len(Invocations) : Invocations[c].cone = c

\* each member once; the symmetric members first, then the others, each
\* group in construction order
SymmetricFirstOrder ==
    /\ \A k \in Members :
        Cardinality({c \in 1..Len(Invocations) : Invocations[c].cone = k}) = 1
    /\ \A c \in 1..Len(Invocations) : \A h \in (c + 1)..Len(Invocations) :
        LET sc == cones[Invocations[c].cone].is_symmetric
            sh == cones[Invocations[h].cone].is_symmetric
        IN /\ ~(~sc /\ sh)
           /\ (sc = sh) => Invocations[c].cone < Invocations[h].cone

\* C12 as stated: every method that takes buffers calls member 1, 2, ... in
\* construction order, each once, on exactly the slices at its range, and
\* nothing outside a member's range is written by it.
DispatchInConstructionOrder ==
    ReturnedWithBuffers => ConstructionOrder /\ SlicesExact /\ OnlyOwnWrites

\* C12, amended: every method that takes buffers calls each member once on
\* exactly the slices at its range (rng_blocks for get_Hs, rng_cones
\* otherwise), and a buffer changes only inside the range of the member
\* that wrote there; the calls are in construction order, except in
\* step_length, which calls the symmetric members before the others.
DispatchSlices ==
    ReturnedWithBuffers =>
        /\ IF method = "step_length" THEN SymmetricFirstOrder ELSE ConstructionOrder
        /\ SlicesExact
        /\ OnlyOwnWrites

\* mul_Hs on a nonnegative cone and an exponential cone, with buffers one
\* entry longer than numel: each member got its own slice of x and wrote
\* its own part of y, the spare entry is as the caller left it
DispatchSlicesWitness ==
    /\ method = "mul_Hs"
    /\ rng_cones = <<Range(0, 2), Range(2, 5)>>
    /\ Len(mcalls) = 2
    /\ mcalls[2].args[2] = <<202, 203, 204>>
    /\ bufs[1] = <<Mark(1), Mark(1), Mark(2), Mark(2), Mark(2), 105>>
    /\ bufs[2] = bufs0[2]

\* C13: rectify_equilibration fills all of δ with ones before any member
\* runs, then calls every member once, in order, on its slices of δ and e,
\* whatever the members before it answered; it returns true exactly when
\* some member answered true. δ is one wherever no member wrote, e is not
\* written; without members the answer is false and δ is all ones.
RectifyEquilibrationOr ==
    method = "rectify_equilibration" =>
        /\ Len(mcalls) = Len(cones)
        /\ \A k \in Members :
            /\ mcalls[k].cone = k
            /\ mcalls[k].args[1] = [j \in 1..nvars(types[k]) |-> 1]
            /\ mcalls[k].args[2] = [j \in 1..nvars(types[k]) |->
                                        bufs0[2][rng_cones[k].start + j]]
        /\ opchanged = (\E k \in Members : mcalls[k].changed)
        /\ Len(bufs[1]) = Len(bufs0[1])
        /\ \A j \in 1..Len(bufs[1]) :
            \/ bufs[1][j] = 1
            \/ \E k \in Members : /\ mcalls[k].changed
                                   /\ InRange(j, rng_cones[k])
                                   /\ bufs[1][j] = Mark(k)
        /\ bufs[2] = bufs0[2]
        /\ cones = <<>> => ~opchanged /\ \A j \in 1..Len(bufs[1]) : bufs[1][j] = 1

\* the first of two members answered true and wrote its slice, the second
\* was still called and answered false: the result is true, and δ, one
\* entry longer than numel, is one outside the first member's range
RectifyEquilibrationOrWitness ==
    /\ method = "rectify_equilibration"
    /\ Len(mcalls) = 2
    /\ mcalls[1].changed /\ ~mcalls[2].changed
    /\ opchanged
    /\ bufs0[1] = <<100, 101, 102, 103>>
    /\ bufs[1] = <<Mark(1), Mark(1), 1, 1>>

====
